---- MODULE Spec2Model ----
(***************************************************************************)
(* A model of src/main.py: the dashboard script that loads the per-school  *)
(* environment CSV files and the growth workbook from DATA_DIR, gates on   *)
(* both collections being non-empty, and then computes the overview,       *)
(* environment and growth summaries.                                       *)
(*                                                                         *)
(* Strings (file names, school names) are sequences of Unicode code        *)
(* points, so that NFC normalisation, pathlib's suffix/stem, str.lower and *)
(* str.replace are computed character by character as Python does.         *)
(***************************************************************************)
EXTENDS Integers, Sequences, FiniteSets, TLC

VARIABLES
    dir,              \* DATA_DIR.iterdir(): the entry names, in iteration order
    content,          \* per entry name: what pd.read_csv does with that file
    workbook,         \* the growth spreadsheet on disk, as pandas reads it
    target_name,      \* the target_name argument of find_file_by_name
    pc,               \* the statement the script is about to run
    env_data,         \* dict: school -> environment table
    growth_file,      \* the entry find_file_by_name returned, or None
    growth_data,      \* dict: sheet name -> growth table
    errors,           \* the st.error messages shown so far
    selected_school,  \* the sidebar selectbox value
    summary_rows,     \* tab 1: overview rows [school, EC target, count]
    total_plants,     \* tab 1: headline total
    avg_df,           \* tab 2: environment summary
    gs_df,            \* tab 3: growth summary
    best,             \* tab 3: the best-performer row
    exception         \* the uncaught exception that ended the run, if any

vars == <<dir, content, workbook, target_name, pc, env_data, growth_file,
          growth_data, errors, selected_school, summary_rows, total_plants,
          avg_df, gs_df, best, exception>>

-----------------------------------------------------------------------------
(* Bounds of the model.                                                    *)

MaxEntries == 3     \* entries in DATA_DIR
MaxSheets == 3      \* sheets in the growth workbook
MaxRows == 2        \* specimens (rows) in one growth sheet

\* Fresh-weight values a specimen row may hold.
Weights == {1, 2}

-----------------------------------------------------------------------------
(* String literals of the script, as code-point sequences.                 *)

\* "_환경데이터"
SuffixToken == <<95, 54872, 44221, 45936, 51060, 53552>>

\* ".csv"
DotCsv == <<46, 99, 115, 118>>

\* "4개교_생육결과데이터.xlsx"
GrowthFileName == <<52, 44060, 44368, 95, 49373, 50977, 44208, 44284, 45936,
                    51060, 53552, 46, 120, 108, 115, 120>>

\* "송도고", "하늘고", "아라고", "동산고"
Songdo == <<49569, 46020, 44256>>
Haneul == <<54616, 45720, 44256>>
Ara == <<50500, 46972, 44256>>
Dongsan == <<46041, 49328, 44256>>

\* "전체", the sidebar's 'all' option
AllSchools == <<51204, 52404>>

\* EC_INFO, an insertion-ordered dict; 1.0, 2.0, 4.0, 8.0 are kept as integers.
EC_INFO == << <<Songdo, 1>>, <<Haneul, 2>>, <<Ara, 4>>, <<Dongsan, 8>> >>

\* Python's None where an EC value is expected (EC_INFO.get(school, None)).
NoEC == -1

\* Python's None where a path is expected; no directory entry has an empty name.
None == <<>>

\* Column labels.  fresh_weight, leaf_count and shoot_length stand for
\* "생중량(g)", "잎 수(장)" and "지상부 길이(mm)".
ENV_COLUMNS == {"temperature", "humidity", "ph", "ec", "time"}
GROWTH_COLUMNS == {"fresh_weight", "leaf_count", "shoot_length"}

-----------------------------------------------------------------------------
(* dict: an insertion-ordered sequence of <<key, value>> pairs.            *)

Keys(d) == [i \in 1..Len(d) |-> d[i][1]]

HasKey(d, k) == \E i \in 1..Len(d) : d[i][1] = k

IndexOf(d, k) == CHOOSE i \in 1..Len(d) : d[i][1] = k /\ \A j \in 1..(i - 1) : d[j][1] # k

\* d.get(k, default)
DictGet(d, k, default) == IF HasKey(d, k) THEN d[IndexOf(d, k)][2] ELSE default

\* A list of pairs instead of a dict: every assignment appends.
DictSetAppending(d, k, v) == Append(d, <<k, v>>)

\* d[k] = v: an existing key keeps its position and takes the new value.
DictSet(d, k, v) ==
    IF HasKey(d, k) THEN [d EXCEPT ![IndexOf(d, k)] = <<k, v>>]
    ELSE Append(d, <<k, v>>)

-----------------------------------------------------------------------------
(* unicodedata.normalize("NFC", text) on ASCII and Hangul: the conjoining-  *)
(* jamo composition of the Unicode standard (section 3.12).                *)

Hangul == [SBase |-> 44032, LBase |-> 4352, VBase |-> 4449, TBase |-> 4519,
           LCount |-> 19, VCount |-> 21, TCount |-> 28]

IsLeading(c) == c >= Hangul.LBase /\ c < Hangul.LBase + Hangul.LCount

IsVowel(c) == c >= Hangul.VBase /\ c < Hangul.VBase + Hangul.VCount

IsTrailing(c) == c > Hangul.TBase /\ c < Hangul.TBase + Hangul.TCount

IsSyllable(c) ==
    c >= Hangul.SBase /\ c < Hangul.SBase + Hangul.LCount * Hangul.VCount * Hangul.TCount

IsLVSyllable(c) == IsSyllable(c) /\ (c - Hangul.SBase) % Hangul.TCount = 0

ComposeLV(l, v) ==
    Hangul.SBase + ((l - Hangul.LBase) * Hangul.VCount + (v - Hangul.VBase)) * Hangul.TCount

RECURSIVE ComposeFrom(_, _, _)
ComposeFrom(text, i, out) ==
    IF i > Len(text) THEN out
    ELSE LET ch == text[i]
             n == Len(out)
         IN IF n > 0 /\ IsLeading(out[n]) /\ IsVowel(ch)
            THEN ComposeFrom(text, i + 1, [out EXCEPT ![n] = ComposeLV(out[n], ch)])
            ELSE IF n > 0 /\ IsLVSyllable(out[n]) /\ IsTrailing(ch)
            THEN ComposeFrom(text, i + 1, [out EXCEPT ![n] = out[n] + (ch - Hangul.TBase)])
            ELSE ComposeFrom(text, i + 1, Append(out, ch))

\* A comparison of the raw names: no normalisation at all.
normalizeRaw(text) == text

normalize(text) == ComposeFrom(text, 1, <<>>)

\* The first entry, in iteration order, whose normalised name is the
\* normalised target; None when the loop runs out.
RECURSIVE FindFrom(_, _, _)
FindFrom(directory, target_norm, i) ==
    IF i > Len(directory) THEN None
    ELSE IF normalize(directory[i]) = target_norm THEN directory[i]
    ELSE FindFrom(directory, target_norm, i + 1)

find_file_by_name(directory, target) == FindFrom(directory, normalize(target), 1)

-----------------------------------------------------------------------------
(* pathlib and str helpers used by load_environment_data.                  *)

\* The index of the last "." of name, 0 when there is none (str.rfind + 1).
RECURSIVE LastDotFrom(_, _)
LastDotFrom(name, i) ==
    IF i = 0 THEN 0 ELSE IF name[i] = 46 THEN i ELSE LastDotFrom(name, i - 1)

LastDot(name) == LastDotFrom(name, Len(name))

\* PurePath.suffix: from the last dot on, unless that dot starts or ends the name.
suffix(name) ==
    LET i == LastDot(name)
    IN IF i > 1 /\ i < Len(name) THEN SubSeq(name, i, Len(name)) ELSE <<>>

\* PurePath.stem: the name without its suffix.
stem(name) ==
    LET i == LastDot(name)
    IN IF i > 1 /\ i < Len(name) THEN SubSeq(name, 1, i - 1) ELSE name

\* str.lower on the characters the model holds: A-Z fold, Hangul has no case.
lower(text) == [i \in 1..Len(text) |-> IF text[i] >= 65 /\ text[i] <= 90 THEN text[i] + 32 ELSE text[i]]

StartsWithAt(text, i, old) ==
    i + Len(old) - 1 <= Len(text) /\ SubSeq(text, i, i + Len(old) - 1) = old

\* text.replace(old, ""): every non-overlapping occurrence goes, left to right.
RECURSIVE ReplaceFrom(_, _, _, _)
ReplaceFrom(text, old, i, out) ==
    IF i > Len(text) THEN out
    ELSE IF StartsWithAt(text, i, old) THEN ReplaceFrom(text, old, i + Len(old), out)
    ELSE ReplaceFrom(text, old, i + 1, Append(out, text[i]))

replace(text, old) == ReplaceFrom(text, old, 1, <<>>)

\* `file.suffix.lower() == ".csv"`
IsCsv(file) == lower(suffix(file)) = DotCsv

\* `school = file.stem.replace("_환경데이터", "")`
SchoolOf(file) == replace(stem(file), SuffixToken)

-----------------------------------------------------------------------------
(* The loaders.  A loader's result carries the mapping, the messages it    *)
(* reported with st.error, and whether an exception left the function.     *)

CsvError(file) == [kind |-> "csv", file |-> file]
GrowthError == [kind |-> "growth", file |-> <<>>]
GateError == [kind |-> "gate", file |-> <<>>]

\* No handler around read_csv: the exception leaves the loader.
ExceptCsvReraise(acc, file) == [acc EXCEPT !.raised = TRUE]

\* `except Exception as e: st.error(...)`: report the file and go on.
ExceptCsv(acc, file) == [acc EXCEPT !.errors = Append(@, CsvError(file))]

RECURSIVE LoadEnvFrom(_, _, _, _)
LoadEnvFrom(directory, read_csv, i, acc) ==
    IF i > Len(directory) \/ acc.raised THEN acc
    ELSE LET file == directory[i]
         IN IF ~IsCsv(file) THEN LoadEnvFrom(directory, read_csv, i + 1, acc)
            ELSE IF read_csv[file].ok
            THEN LoadEnvFrom(directory, read_csv, i + 1,
                     [acc EXCEPT !.data = DictSet(@, SchoolOf(file), read_csv[file].df)])
            ELSE LoadEnvFrom(directory, read_csv, i + 1, ExceptCsv(acc, file))

load_environment_data(directory, read_csv) ==
    LoadEnvFrom(directory, read_csv, 1, [data |-> <<>>, errors |-> <<>>, raised |-> FALSE])

\* A per-sheet handler: an unreadable sheet is skipped and the loop goes on.
RECURSIVE ReadSheetsSkipping(_, _, _)
ReadSheetsSkipping(sheets, i, growth) ==
    IF i > Len(sheets) THEN [raised |-> FALSE, growth |-> growth]
    ELSE IF ~sheets[i].ok THEN ReadSheetsSkipping(sheets, i + 1, growth)
    ELSE ReadSheetsSkipping(sheets, i + 1, DictSet(growth, sheets[i].name, sheets[i].df))

\* The body of the try block after the container opened: the first
\* unreadable sheet raises and the loop is left.
RECURSIVE ReadSheets(_, _, _)
ReadSheets(sheets, i, growth) ==
    IF i > Len(sheets) THEN [raised |-> FALSE, growth |-> growth]
    ELSE IF ~sheets[i].ok THEN [raised |-> TRUE, growth |-> growth]
    ELSE ReadSheets(sheets, i + 1, DictSet(growth, sheets[i].name, sheets[i].df))

load_growth_data(xlsx) ==
    LET body == IF ~xlsx.opens THEN [raised |-> TRUE, growth |-> <<>>]
                ELSE ReadSheets(xlsx.sheets, 1, <<>>)
    IN IF body.raised
       THEN [data |-> <<>>, errors |-> <<GrowthError>>, raised |-> FALSE]
       ELSE [data |-> body.growth, errors |-> <<>>, raised |-> FALSE]

-----------------------------------------------------------------------------
(* Aggregation helpers (pandas).                                           *)

RECURSIVE SumOf(_)
SumOf(values) == IF values = <<>> THEN 0 ELSE values[1] + SumOf(Tail(values))

\* Series.mean(): a sum over a count; the mean of no values is undefined (NaN).
mean(values) == [sum |-> SumOf(values), n |-> Len(values)]

MeanDefined(m) == m.n > 0

\* a < b for two defined means, compared without division.
MeanLess(a, b) == a.sum * b.n < b.sum * a.n

\* A scan that moves on every value not below the best: the last maximum wins.
RECURSIVE IdxMaxLastFrom(_, _, _)
IdxMaxLastFrom(col, i, at) ==
    IF i > Len(col) THEN at
    ELSE IF ~MeanDefined(col[i]) THEN IdxMaxLastFrom(col, i + 1, at)
    ELSE IF at = 0 \/ ~MeanLess(col[i], col[at]) THEN IdxMaxLastFrom(col, i + 1, i)
    ELSE IdxMaxLastFrom(col, i + 1, at)

idxmaxLast(col) == IdxMaxLastFrom(col, 1, 0)

\* Series.idxmax(): the label of the first occurrence of the maximum, NaN
\* skipped; 0 stands for the failure on a column with no defined value (a
\* ValueError, or a NaN label that .loc rejects, by pandas version).
RECURSIVE IdxMaxFrom(_, _, _)
IdxMaxFrom(col, i, at) ==
    IF i > Len(col) THEN at
    ELSE IF ~MeanDefined(col[i]) THEN IdxMaxFrom(col, i + 1, at)
    ELSE IF at = 0 \/ MeanLess(col[at], col[i]) THEN IdxMaxFrom(col, i + 1, i)
    ELSE IdxMaxFrom(col, i + 1, at)

idxmax(col) == IdxMaxFrom(col, 1, 0)

\* `len(growth_data.get(school, []))`
CountOf(growth, school) ==
    IF HasKey(growth, school) THEN Len(growth[IndexOf(growth, school)][2].rows) ELSE 0

\* `sum(len(df) for df in growth_data.values())`
RECURSIVE TotalRows(_)
TotalRows(growth) ==
    IF growth = <<>> THEN 0 ELSE Len(growth[1][2].rows) + TotalRows(Tail(growth))

\* `pd.concat(env_data.values())[column]` raises KeyError when no table has the column.
ConcatHas(env, column) == \E i \in 1..Len(env) : column \in env[i][2].columns

\* `EC_INFO.get(school, None)`
ECOf(school) == DictGet(EC_INFO, school, NoEC)

\* The columns the env_avg loop reads from each table.
EnvAvgColumns == {"temperature", "humidity", "ph", "ec"}

\* The rows of env_avg; the per-column means are not kept, the tables of the
\* model hold no sensor values.
EnvAvgRows(env) == [i \in 1..Len(env) |-> [school |-> env[i][1], target_ec |-> ECOf(env[i][1])]]

\* The rows of growth_summary.
GrowthSummaryRows(growth) ==
    [i \in 1..Len(growth) |->
        [school |-> growth[i][1], ec |-> ECOf(growth[i][1]),
         mean_weight |-> mean(growth[i][2].rows), count |-> Len(growth[i][2].rows)]]

NoRow == [school |-> <<>>, ec |-> NoEC, mean_weight |-> mean(<<>>), count |-> 0]

NoException == [type |-> "", at |-> ""]

\* `["전체"] + list(EC_INFO.keys())`
schools == <<AllSchools>> \o Keys(EC_INFO)

\* `not env_data and not growth_data`: halts only when both are empty.
GateFailsBoth(env, growth) == env = <<>> /\ growth = <<>>

\* `if not env_data or not growth_data`
GateFails(env, growth) == env = <<>> \/ growth = <<>>

-----------------------------------------------------------------------------
(* The script, statement by statement.                                     *)

\* line 79: env_data = load_environment_data(DATA_DIR)
LoadEnv ==
    /\ pc = "load_env"
    /\ LET r == load_environment_data(dir, content)
       IN /\ env_data' = r.data
          /\ errors' = errors \o r.errors
          /\ IF r.raised
             THEN /\ pc' = "crashed"
                  /\ exception' = [type |-> "Exception", at |-> "load_environment_data"]
             ELSE /\ pc' = "find"
                  /\ UNCHANGED exception
    /\ UNCHANGED <<dir, content, workbook, target_name, growth_file, growth_data,
                   selected_school, summary_rows, total_plants, avg_df, gs_df, best>>

\* line 80: growth_file = find_file_by_name(DATA_DIR, "4개교_생육결과데이터.xlsx")
FindGrowthFile ==
    /\ pc = "find"
    /\ growth_file' = find_file_by_name(dir, target_name)
    /\ pc' = "load_growth"
    /\ UNCHANGED <<dir, content, workbook, target_name, env_data, growth_data, errors,
                   selected_school, summary_rows, total_plants, avg_df, gs_df, best,
                   exception>>

\* line 81: growth_data = load_growth_data(growth_file) if growth_file else {}
LoadGrowth ==
    /\ pc = "load_growth"
    /\ IF growth_file # None
       THEN LET r == load_growth_data(workbook)
            IN /\ growth_data' = r.data
               /\ errors' = errors \o r.errors
               /\ IF r.raised
                  THEN /\ pc' = "crashed"
                       /\ exception' = [type |-> "Exception", at |-> "load_growth_data"]
                  ELSE /\ pc' = "gate"
                       /\ UNCHANGED exception
       ELSE /\ growth_data' = <<>>
            /\ pc' = "gate"
            /\ UNCHANGED <<errors, exception>>
    /\ UNCHANGED <<dir, content, workbook, target_name, env_data, growth_file,
                   selected_school, summary_rows, total_plants, avg_df, gs_df, best>>

\* lines 83-85: the startup gate; st.stop() ends the run.
Gate ==
    /\ pc = "gate"
    /\ IF GateFails(env_data, growth_data)
       THEN /\ errors' = Append(errors, GateError)
            /\ pc' = "halted"
       ELSE /\ pc' = "sidebar"
            /\ UNCHANGED errors
    /\ UNCHANGED <<dir, content, workbook, target_name, env_data, growth_file, growth_data,
                   selected_school, summary_rows, total_plants, avg_df, gs_df, best,
                   exception>>

\* lines 100-101: the user's choice among "전체" and the keys of EC_INFO.
Sidebar ==
    /\ pc = "sidebar"
    /\ \E i \in 1..Len(schools) : selected_school' = schools[i]
    /\ pc' = "tab1"
    /\ UNCHANGED <<dir, content, workbook, target_name, env_data, growth_file, growth_data,
                   errors, summary_rows, total_plants, avg_df, gs_df, best, exception>>

\* lines 113-139: the overview table and the headline metrics.
Tab1 ==
    /\ pc = "tab1"
    /\ summary_rows' = [i \in 1..Len(EC_INFO) |->
                           [school |-> EC_INFO[i][1], ec |-> EC_INFO[i][2],
                            count |-> CountOf(growth_data, EC_INFO[i][1])]]
    /\ total_plants' = TotalRows(growth_data)
    /\ IF ~ConcatHas(env_data, "temperature")
       THEN /\ pc' = "crashed"
            /\ exception' = [type |-> "KeyError", at |-> "tab1: concat[temperature]"]
       ELSE IF ~ConcatHas(env_data, "humidity")
       THEN /\ pc' = "crashed"
            /\ exception' = [type |-> "KeyError", at |-> "tab1: concat[humidity]"]
       ELSE /\ pc' = "tab2"
            /\ UNCHANGED exception
    /\ UNCHANGED <<dir, content, workbook, target_name, env_data, growth_file, growth_data,
                   errors, selected_school, avg_df, gs_df, best>>

\* lines 144-203: the environment summary and the per-school view.
Tab2 ==
    /\ pc = "tab2"
    /\ IF \E i \in 1..Len(env_data) : ~(EnvAvgColumns \subseteq env_data[i][2].columns)
       THEN /\ pc' = "crashed"
            /\ exception' = [type |-> "KeyError", at |-> "tab2: env_avg df[column]"]
            /\ UNCHANGED avg_df
       ELSE /\ avg_df' = EnvAvgRows(env_data)
            /\ IF selected_school = AllSchools
               THEN /\ pc' = "tab3"
                    /\ UNCHANGED exception
               ELSE IF ~HasKey(env_data, selected_school)
               THEN /\ pc' = "crashed"
                    /\ exception' = [type |-> "KeyError", at |-> "tab2: env_data[selected_school]"]
               ELSE IF "time" \notin env_data[IndexOf(env_data, selected_school)][2].columns
               THEN /\ pc' = "crashed"
                    /\ exception' = [type |-> "ValueError", at |-> "tab2: px.line x=time"]
               ELSE /\ pc' = "tab3"
                    /\ UNCHANGED exception
    /\ UNCHANGED <<dir, content, workbook, target_name, env_data, growth_file, growth_data,
                   errors, selected_school, summary_rows, total_plants, gs_df, best>>

\* lines 208-291: the growth summary and the best performer.
Tab3 ==
    /\ pc = "tab3"
    /\ IF \E i \in 1..Len(growth_data) : ~(GROWTH_COLUMNS \subseteq growth_data[i][2].columns)
       THEN /\ pc' = "crashed"
            /\ exception' = [type |-> "KeyError", at |-> "tab3: growth_summary df[column]"]
            /\ UNCHANGED <<gs_df, best>>
       ELSE LET rows == GrowthSummaryRows(growth_data)
                at == idxmax([i \in 1..Len(rows) |-> rows[i].mean_weight])
            IN /\ gs_df' = rows
               /\ IF at = 0
                  THEN /\ pc' = "crashed"
                       /\ exception' = [type |-> "ValueError", at |-> "tab3: idxmax of all-NaN"]
                       /\ UNCHANGED best
                  ELSE /\ best' = rows[at]
                       /\ pc' = "done"
                       /\ UNCHANGED exception
    /\ UNCHANGED <<dir, content, workbook, target_name, env_data, growth_file, growth_data,
                   errors, selected_school, summary_rows, total_plants, avg_df>>

Next ==
    \/ LoadEnv
    \/ FindGrowthFile
    \/ LoadGrowth
    \/ Gate
    \/ Sidebar
    \/ Tab1
    \/ Tab2
    \/ Tab3

-----------------------------------------------------------------------------
(* The inputs: what DATA_DIR may hold.                                     *)

\* Canonical decomposition (NFD) of a Hangul syllable into its jamo: how a
\* file system that stores decomposed names holds a name typed in NFC.
DecomposeChar(c) ==
    IF ~IsSyllable(c) THEN <<c>>
    ELSE LET s == c - Hangul.SBase
             l == Hangul.LBase + (s \div (Hangul.VCount * Hangul.TCount))
             v == Hangul.VBase + ((s % (Hangul.VCount * Hangul.TCount)) \div Hangul.TCount)
             t == Hangul.TBase + (s % Hangul.TCount)
         IN IF t = Hangul.TBase THEN <<l, v>> ELSE <<l, v, t>>

RECURSIVE NFD(_)
NFD(text) == IF text = <<>> THEN <<>> ELSE DecomposeChar(text[1]) \o NFD(Tail(text))

\* A school that EC_INFO does not list: "X".
OtherSchool == <<88>>

\* "<school>_환경데이터.csv"
CsvName(school) == school \o SuffixToken \o DotCsv

\* The growth workbook's name as stored in NFD, with only its first syllable
\* decomposed, with an upper-case extension, and cut short by its first character.
GrowthFileNFD == NFD(GrowthFileName)
GrowthFileMixed == <<52>> \o NFD(<<44060>>) \o SubSeq(GrowthFileName, 3, Len(GrowthFileName))
GrowthFileUpper == SubSeq(GrowthFileName, 1, 12) \o <<88, 76, 83, 88>>
GrowthFileCut == Tail(GrowthFileName)

\* Entry names of the script-level runs.
ScriptNames == {CsvName(Songdo), Songdo \o DotCsv, CsvName(OtherSchool), GrowthFileNFD}

\* Entry names of the environment-loader runs: the regular name, a bare stem,
\* an upper-case extension, the token inside the stem ("송도고_환경데이터2.csv"),
\* a name that is only an extension (".csv"), and the workbook.
EnvNames == {CsvName(Songdo), Songdo \o DotCsv, Songdo \o SuffixToken \o <<46, 67, 83, 86>>,
             Songdo \o SuffixToken \o <<50>> \o DotCsv, DotCsv, GrowthFileName}

\* Entry names of the file-resolution runs.
FindNames == {GrowthFileName, GrowthFileNFD, GrowthFileMixed, GrowthFileUpper,
              GrowthFileCut, CsvName(Songdo)}

Range(f) == {f[i] : i \in DOMAIN f}

\* The directory listings over a set of names: distinct names, in any order.
Listings(names, n) ==
    UNION {{d \in [1..k -> names] : \A i, j \in 1..k : i # j => d[i] # d[j]} : k \in 0..n}

EnvTable(columns) == [columns |-> columns]

CompleteEnvTable == EnvTable(ENV_COLUMNS)

\* What pd.read_csv does with a file: it raises, or it returns a table, which
\* may lack a column.
ReadFails == [ok |-> FALSE, df |-> EnvTable({})]
CsvOutcomes == {ReadFails} \cup
    {[ok |-> TRUE, df |-> EnvTable(c)] : c \in {ENV_COLUMNS, ENV_COLUMNS \ {"temperature"}, ENV_COLUMNS \ {"time"}}}

\* The outcomes of the environment-loader runs: two tables that differ.
LoaderCsvOutcomes == {ReadFails} \cup
    {[ok |-> TRUE, df |-> EnvTable(c)] : c \in {ENV_COLUMNS, ENV_COLUMNS \ {"temperature"}}}

\* The files that hold delimited text; pd.read_csv raises on any other entry.
HoldsCsvText(name) == Len(name) >= 4 /\ lower(SubSeq(name, Len(name) - 3, Len(name))) = DotCsv

Contents(d, outcomes) ==
    {c \in [Range(d) -> outcomes \cup {ReadFails}] : \A f \in Range(d) : ~HoldsCsvText(f) => c[f] = ReadFails}

GoodContents(d) == [f \in Range(d) |-> IF HoldsCsvText(f) THEN [ok |-> TRUE, df |-> CompleteEnvTable] ELSE ReadFails]

\* A growth table: its columns, and one fresh weight per specimen row (every
\* cell holds a value).
GrowthTable(columns, rows) == [columns |-> columns, rows |-> rows]

RowsUpTo(n) == UNION {[1..k -> Weights] : k \in 0..n}

\* One sheet as pd.read_excel meets it: unreadable, or a table.
Sheet(name, ok, df) == [name |-> name, ok |-> ok, df |-> df]

SheetOutcomes(tables) ==
    {[ok |-> TRUE, df |-> t] : t \in tables} \cup {[ok |-> FALSE, df |-> GrowthTable({}, <<>>)]}

\* The workbooks with up to n sheets of distinct names; one that does not open.
Unopenable == [opens |-> FALSE, sheets |-> <<>>]
Workbooks(names, tables, n) ==
    {Unopenable} \cup
    UNION {{[opens |-> TRUE, sheets |-> [i \in 1..k |-> Sheet(order[i], what[i].ok, what[i].df)]] :
              order \in {o \in [1..k -> names] : \A i, j \in 1..k : i # j => o[i] # o[j]},
              what \in [1..k -> SheetOutcomes(tables)]} : k \in 1..n}

GrowthTables == {GrowthTable(GROWTH_COLUMNS, r) : r \in RowsUpTo(MaxRows)} \cup
    {GrowthTable(GROWTH_COLUMNS \ {"leaf_count"}, <<1>>)}

ScriptGrowthTables == {GrowthTable(GROWTH_COLUMNS, r) : r \in {<<1>>, <<2>>}} \cup
    {GrowthTable(GROWTH_COLUMNS \ {"leaf_count"}, <<1>>)}

GoodWorkbook == [opens |-> TRUE,
                 sheets |-> <<Sheet(Songdo, TRUE, GrowthTable(GROWTH_COLUMNS, <<1, 2>>))>>]

\* The names canonically equivalent to the workbook's: where one is absent no
\* workbook is ever opened, and its contents are left out of the state.
HoldsWorkbook(d) == Range(d) \cap {GrowthFileName, GrowthFileNFD, GrowthFileMixed} # {}

InitProgram ==
    /\ pc = "load_env"
    /\ env_data = <<>>
    /\ growth_file = None
    /\ growth_data = <<>>
    /\ errors = <<>>
    /\ selected_school = AllSchools
    /\ summary_rows = <<>>
    /\ total_plants = 0
    /\ avg_df = <<>>
    /\ gs_df = <<>>
    /\ best = NoRow
    /\ exception = NoException

\* The script over small directories and small workbooks.
Init ==
    /\ dir \in Listings(ScriptNames, MaxEntries)
    /\ content \in Contents(dir, CsvOutcomes)
    /\ workbook \in IF HoldsWorkbook(dir)
                    THEN Workbooks({Songdo, OtherSchool}, ScriptGrowthTables, MaxSheets)
                    ELSE {Unopenable}
    /\ target_name = GrowthFileName
    /\ InitProgram

Spec == Init /\ [][Next]_vars

\* The script over the directories that exercise load_environment_data.
InitEnv ==
    /\ dir \in Listings(EnvNames, MaxEntries)
    /\ content \in Contents(dir, LoaderCsvOutcomes)
    /\ workbook = IF HoldsWorkbook(dir) THEN GoodWorkbook ELSE Unopenable
    /\ target_name = GrowthFileName
    /\ InitProgram

SpecEnv == InitEnv /\ [][Next]_vars

\* The script over the directories that exercise find_file_by_name, which is
\* also called with the target in decomposed form.
InitFind ==
    /\ dir \in Listings(FindNames, MaxEntries)
    /\ content = GoodContents(dir)
    /\ workbook = IF HoldsWorkbook(dir) THEN GoodWorkbook ELSE Unopenable
    /\ target_name \in {GrowthFileName, GrowthFileNFD}
    /\ InitProgram

SpecFind == InitFind /\ [][Next]_vars

\* The script over the workbooks that exercise load_growth_data and the
\* growth summary, in a directory with one good environment file.
InitGrowth ==
    /\ dir = <<CsvName(Songdo), GrowthFileNFD>>
    /\ content = GoodContents(dir)
    /\ workbook \in Workbooks({Songdo, Haneul, OtherSchool}, GrowthTables, MaxSheets)
    /\ target_name = GrowthFileName
    /\ InitProgram

SpecGrowth == InitGrowth /\ [][Next]_vars

-----------------------------------------------------------------------------
(* The claims.                                                             *)

AfterLoadEnv == pc # "load_env"

AfterFind == pc \notin {"load_env", "find"}

AfterLoadGrowth == pc \notin {"load_env", "find", "load_growth"}

AfterGate == pc \notin {"load_env", "find", "load_growth", "gate"}

Reported(message) == \E m \in 1..Len(errors) : errors[m] = message

\* The .csv entries of the directory, by position, and how their parse went.
CsvEntries == {i \in 1..Len(dir) : IsCsv(dir[i])}
Parsed == {i \in CsvEntries : content[dir[i]].ok}
Failed == {i \in CsvEntries : ~content[dir[i]].ok}

EnvLoadAborted == pc = "crashed" /\ exception.at = "load_environment_data"

FailuresReported == \A i \in Failed : Reported(CsvError(dir[i]))

EntriesComeFromParsedFiles ==
    \A e \in 1..Len(env_data) :
        \E i \in Parsed : SchoolOf(dir[i]) = env_data[e][1] /\ content[dir[i]].df = env_data[e][2]

\* C1 as stated: load_environment_data reports every failing .csv entry, takes
\* no entry from it, never aborts, and the table of every .csv entry that
\* parses is in the returned mapping.
C1_AsStated ==
    AfterLoadEnv =>
        /\ ~EnvLoadAborted
        /\ FailuresReported
        /\ EntriesComeFromParsedFiles
        /\ \A i \in Parsed : DictGet(env_data, SchoolOf(dir[i]), ReadFails.df) = content[dir[i]].df

\* C1, amended: load_environment_data reports every failing .csv entry, takes
\* no entry from it and never aborts; every .csv entry that parses has its key
\* in the returned mapping, and its table is the one held there unless a
\* later-enumerated entry that parses has the same key.
C1_PartialFailure ==
    AfterLoadEnv =>
        /\ ~EnvLoadAborted
        /\ FailuresReported
        /\ EntriesComeFromParsedFiles
        /\ \A i \in Parsed :
              /\ HasKey(env_data, SchoolOf(dir[i]))
              /\ (\A j \in Parsed : j > i => SchoolOf(dir[j]) # SchoolOf(dir[i]))
                    => DictGet(env_data, SchoolOf(dir[i]), ReadFails.df) = content[dir[i]].df

\* A failing file is enumerated before a file that parses, and the later
\* file's table is in the mapping.
C1_Witness ==
    /\ AfterLoadEnv
    /\ \E i \in Failed : \E j \in Parsed :
          /\ i < j
          /\ DictGet(env_data, SchoolOf(dir[j]), ReadFails.df) = content[dir[j]].df
          /\ Reported(CsvError(dir[i]))

\* C2: whenever the gate finds env_data or growth_data empty, or the growth
\* spreadsheet was not found, the run reports an error and halts with nothing
\* aggregated; every aggregation step runs with both mappings non-empty.
NothingAggregated ==
    summary_rows = <<>> /\ total_plants = 0 /\ avg_df = <<>> /\ gs_df = <<>> /\ best = NoRow

C2_StartupGate ==
    /\ (AfterGate /\ pc # "halted") =>
          env_data # <<>> /\ growth_data # <<>> /\ growth_file # None
    /\ (AfterGate /\ (env_data = <<>> \/ growth_data = <<>> \/ growth_file = None)) =>
          pc = "halted"
    /\ pc = "halted" => Reported(GateError) /\ NothingAggregated
    /\ ~NothingAggregated => env_data # <<>> /\ growth_data # <<>>

\* The run halted because the spreadsheet was not found, the environment
\* mapping being non-empty.
C2_Witness ==
    pc = "halted" /\ growth_file = None /\ env_data # <<>> /\ Reported(GateError)

RowsFor(df, school) == {i \in 1..Len(df) : df[i].school = school}

\* C3: for every school of EC_INFO, avg_df and gs_df hold at most one row, and
\* the row's target EC is the school's value in EC_INFO.
C3_OneRowPerSchool ==
    \A g \in 1..Len(EC_INFO) :
        /\ Cardinality(RowsFor(avg_df, EC_INFO[g][1])) <= 1
        /\ \A i \in RowsFor(avg_df, EC_INFO[g][1]) : avg_df[i].target_ec = EC_INFO[g][2]
        /\ Cardinality(RowsFor(gs_df, EC_INFO[g][1])) <= 1
        /\ \A i \in RowsFor(gs_df, EC_INFO[g][1]) : gs_df[i].ec = EC_INFO[g][2]

\* Two files that parse share the key "송도고", and both summaries hold its row.
C3_Witness ==
    /\ pc = "done"
    /\ \E i, j \in Parsed : i # j /\ SchoolOf(dir[i]) = Songdo /\ SchoolOf(dir[j]) = Songdo
    /\ RowsFor(avg_df, Songdo) # {}
    /\ RowsFor(gs_df, Songdo) # {}

\* Canonical equivalence of two names, by their decompositions.
CanonicallyEqual(a, b) == NFD(a) = NFD(b)

\* C4: find_file_by_name returns an entry exactly when some entry's name
\* equals the target after NFC normalisation of both (equivalently, is
\* canonically equivalent to it), the entry returned is such an entry, and
\* otherwise it returns None.
C4_FindByNormalizedName ==
    AfterFind =>
        /\ growth_file # None <=> \E i \in 1..Len(dir) : normalize(dir[i]) = normalize(target_name)
        /\ growth_file # None <=> \E i \in 1..Len(dir) : CanonicallyEqual(dir[i], target_name)
        /\ growth_file # None =>
              /\ growth_file \in Range(dir)
              /\ normalize(growth_file) = normalize(target_name)
              /\ CanonicallyEqual(growth_file, target_name)

\* The NFD-stored entry is returned for the NFC target, in a directory that
\* also holds the name with an upper-case extension.
C4_Witness ==
    /\ AfterFind
    /\ target_name = GrowthFileName
    /\ growth_file = GrowthFileNFD
    /\ GrowthFileUpper \in Range(dir)

GrowthLoadCalled == AfterLoadGrowth /\ growth_file # None

AllSheetsReadable ==
    workbook.opens /\ \A i \in 1..Len(workbook.sheets) : workbook.sheets[i].ok

\* C5: load_growth_data returns one table per sheet, keyed by the sheet names,
\* or, when the container does not open or any sheet cannot be read, the
\* empty mapping with the error reported; never a part of the sheets, and it
\* never raises.
C5_AllOrNothing ==
    GrowthLoadCalled =>
        /\ ~(pc = "crashed" /\ exception.at = "load_growth_data")
        /\ IF AllSheetsReadable
           THEN /\ Keys(growth_data) = [i \in 1..Len(workbook.sheets) |-> workbook.sheets[i].name]
                /\ \A i \in 1..Len(workbook.sheets) : growth_data[i][2] = workbook.sheets[i].df
                /\ ~Reported(GrowthError)
           ELSE /\ growth_data = <<>>
                /\ Reported(GrowthError)

\* The first sheet was read, the second could not be: nothing is returned.
C5_Witness ==
    /\ GrowthLoadCalled
    /\ workbook.opens
    /\ Len(workbook.sheets) >= 2
    /\ workbook.sheets[1].ok
    /\ ~workbook.sheets[2].ok
    /\ growth_data = <<>>
    /\ Reported(GrowthError)

MissingColumnFailures ==
    {"tab1: concat[temperature]", "tab1: concat[humidity]", "tab2: env_avg df[column]",
     "tab2: px.line x=time", "tab3: growth_summary df[column]"}

\* C6: a parsed table that lacks a required column is treated as a parse
\* failure at load time (it is not in the loaded mapping), and no aggregation
\* step fails on a missing column.
C6_MissingColumnIsParseFailure ==
    /\ AfterLoadEnv => \A e \in 1..Len(env_data) : ENV_COLUMNS \subseteq env_data[e][2].columns
    /\ AfterLoadGrowth =>
          \A e \in 1..Len(growth_data) : GROWTH_COLUMNS \subseteq growth_data[e][2].columns
    /\ ~(pc = "crashed" /\ exception.at \in MissingColumnFailures)

\* stem with the token taken off its end only (str.removesuffix).
RemoveSuffix(text, token) ==
    IF Len(text) >= Len(token) /\ SubSeq(text, Len(text) - Len(token) + 1, Len(text)) = token
    THEN SubSeq(text, 1, Len(text) - Len(token))
    ELSE text

ClaimedKey(file) == RemoveSuffix(stem(file), SuffixToken)

KeysUnique(d) == \A i, j \in 1..Len(d) : i # j => d[i][1] # d[j][1]

\* C7: load_environment_data keys each table by the stem with "_환경데이터"
\* stripped from its end, takes only the .csv entries, and returns unique
\* keys, a key that several parsed files yield holding the table of the file
\* enumerated last.
C7_KeyIsStemWithoutSuffix ==
    AfterLoadEnv =>
        /\ KeysUnique(env_data)
        /\ \A e \in 1..Len(env_data) : \E i \in Parsed : ClaimedKey(dir[i]) = env_data[e][1]
        /\ \A i \in Parsed :
              /\ HasKey(env_data, ClaimedKey(dir[i]))
              /\ (\A j \in Parsed : j > i => ClaimedKey(dir[j]) # ClaimedKey(dir[i]))
                    => DictGet(env_data, ClaimedKey(dir[i]), ReadFails.df) = content[dir[i]].df

\* What the loader does instead: the same with the key the code derives,
\* every occurrence of the token removed from the stem.
KeysUniqueLastWins ==
    AfterLoadEnv =>
        /\ KeysUnique(env_data)
        /\ \A e \in 1..Len(env_data) : \E i \in Parsed : SchoolOf(dir[i]) = env_data[e][1]
        /\ \A i \in Parsed :
              /\ HasKey(env_data, SchoolOf(dir[i]))
              /\ (\A j \in Parsed : j > i => SchoolOf(dir[j]) # SchoolOf(dir[i]))
                    => DictGet(env_data, SchoolOf(dir[i]), ReadFails.df) = content[dir[i]].df

InECInfo(school) == HasKey(EC_INFO, school)

RECURSIVE CountListed(_, _)
CountListed(growth, g) ==
    IF g = 0 THEN 0 ELSE CountOf(growth, EC_INFO[g][1]) + CountListed(growth, g - 1)

\* C8: a group that EC_INFO does not list has no row in the overview table,
\* the environment summary or the growth summary, is not the best performer,
\* and is not counted in the headline total.
C8_UnlistedGroupsExcluded ==
    /\ \A i \in 1..Len(summary_rows) : InECInfo(summary_rows[i].school)
    /\ \A i \in 1..Len(avg_df) : InECInfo(avg_df[i].school)
    /\ \A i \in 1..Len(gs_df) : InECInfo(gs_df[i].school)
    /\ best # NoRow => InECInfo(best.school)
    /\ pc \in {"tab2", "tab3", "done"} => total_plants = CountListed(growth_data, Len(EC_INFO))

\* C9: when the growth summary holds a defined mean fresh weight, the row
\* selected has a mean not below any other group's, and among the rows that
\* share the maximum it is the first in the summary's order.
C9_BestPerformer ==
    /\ pc = "done" =>
          \E b \in 1..Len(gs_df) :
              /\ best = gs_df[b]
              /\ best.mean_weight.n > 0
              /\ \A j \in 1..Len(gs_df) :
                    gs_df[j].mean_weight.n > 0 =>
                        /\ gs_df[j].mean_weight.sum * best.mean_weight.n
                              <= best.mean_weight.sum * gs_df[j].mean_weight.n
                        /\ j < b => gs_df[j].mean_weight.sum * best.mean_weight.n
                                       < best.mean_weight.sum * gs_df[j].mean_weight.n
    /\ (pc = "crashed" /\ exception.at = "tab3: idxmax of all-NaN") =>
          \A j \in 1..Len(gs_df) : gs_df[j].mean_weight.n = 0

\* Two groups with different tables share the maximal mean, and the one that
\* comes first in the summary is selected.
C9_Witness ==
    /\ pc = "done"
    /\ \E i, j \in 1..Len(gs_df) :
          /\ i < j
          /\ best = gs_df[i]
          /\ gs_df[j].mean_weight.n > 0
          /\ gs_df[j].mean_weight.sum * best.mean_weight.n
                = best.mean_weight.sum * gs_df[j].mean_weight.n
          /\ gs_df[i] # gs_df[j]

\* C10: past the gate, for a sidebar choice other than "전체", the lookup
\* env_data[selected_school] never hits a missing key.
C10_SelectedSchoolLoaded ==
    /\ ~(pc = "crashed" /\ exception.at = "tab2: env_data[selected_school]")
    /\ (pc \in {"tab3", "done"} /\ selected_school # AllSchools) => HasKey(env_data, selected_school)

====
